---- MODULE Spec2Model ----
(***************************************************************************)
(* A model of IRvisualizer.py: the command-line handling, the batch loop   *)
(* over the file arguments, the sentinel-based extraction                  *)
(* (import_irdata_from_csv) and the normalization (normalize_y).           *)
(*                                                                         *)
(* Strings are sequences of one-character strings, so that Python's        *)
(* substring test (in), str.strip, int() and float() are computed and not  *)
(* assumed.  Floating-point values are pairs <<n, d>>: a reduced fraction   *)
(* n/d with d > 0, or one of NaN = <<0,0>>, +inf = <<1,0>>, -inf = <<-1,0>>.*)
(* Python's None and False are the empty tuple <<>>; an index held in j or  *)
(* k is the one-element tuple <<i>>.  Indices i, j, k are Python's          *)
(* (0-based); element i of a Python list s is s[i + 1] here.               *)
(***************************************************************************)
EXTENDS Integers, Sequences, FiniteSets, TLC

\* ------------------------------------------------------------ bounds
\* The largest number of file path arguments on a command line.
MaxFiles == 3
\* The largest number of rows of a raw table under SpecFn.
MaxRows == 4

\* ------------------------------------------------------------ strings
MinusX == <<"-", "x">>
MinusY == <<"-", "y">>
DotCsv == <<".", "c", "s", "v">>
NormalizedCsv == <<"_", "n", "o", "r", "m", "a", "l", "i", "z", "e", "d", ".", "c", "s", "v">>
XYDATA == <<"X", "Y", "D", "A", "T", "A">>
ExtendedInformation ==
    <<"#", "#", "#", "#", "#", " ", "E", "x", "t", "e", "n", "d", "e", "d", " ",
      "I", "n", "f", "o", "r", "m", "a", "t", "i", "o", "n">>

\* Python's `sub in s` for strings.
Contains(s, sub) ==
    \E p \in 0..(Len(s) - Len(sub)) : SubSeq(s, p + 1, p + Len(sub)) = sub

RECURSIVE LStrip(_, _)
LStrip(s, chars) ==
    IF s # <<>> /\ Head(s) \in chars THEN LStrip(Tail(s), chars) ELSE s

RECURSIVE RStrip(_, _)
RStrip(s, chars) ==
    IF s # <<>> /\ s[Len(s)] \in chars
    THEN RStrip(SubSeq(s, 1, Len(s) - 1), chars)
    ELSE s

\* Python's s.strip(chars): every leading and trailing character that is in
\* the set of characters of `chars` is removed.
Strip(s, chars) ==
    LET set == {chars[p] : p \in DOMAIN chars}
    IN  RStrip(LStrip(s, set), set)

\* Python's del s[a:b] (0-based, negative indices count from the end, both
\* ends clamped to the list).
SliceIndex(v, n) ==
    IF v < 0 THEN (IF v + n < 0 THEN 0 ELSE v + n)
    ELSE (IF v > n THEN n ELSE v)

DelSlice(s, a, b) ==
    LET lo == SliceIndex(a, Len(s))
        hi == SliceIndex(b, Len(s))
    IN  IF lo >= hi THEN s
        ELSE SubSeq(s, 1, lo) \o SubSeq(s, hi + 1, Len(s))

\* ------------------------------------------------------------ numbers
Digits == {"0", "1", "2", "3", "4", "5", "6", "7", "8", "9"}

DigitVal(c) ==
    CASE c = "0" -> 0 [] c = "1" -> 1 [] c = "2" -> 2 [] c = "3" -> 3
      [] c = "4" -> 4 [] c = "5" -> 5 [] c = "6" -> 6 [] c = "7" -> 7
      [] c = "8" -> 8 [] c = "9" -> 9

RECURSIVE ParseDigits(_)
ParseDigits(s) ==
    IF s = <<>> THEN 0
    ELSE 10 * ParseDigits(SubSeq(s, 1, Len(s) - 1)) + DigitVal(s[Len(s)])

IsDigits(s) == s # <<>> /\ \A p \in DOMAIN s : s[p] \in Digits

Unsigned(s) == IF s # <<>> /\ s[1] \in {"-", "+"} THEN Tail(s) ELSE s
Sign(s) == IF s # <<>> /\ s[1] = "-" THEN -1 ELSE 1

Abs(n) == IF n < 0 THEN -n ELSE n

RECURSIVE GCD(_, _)
GCD(a, b) == IF b = 0 THEN a ELSE GCD(b, a % b)

RECURSIVE Pow10(_)
Pow10(n) == IF n = 0 THEN 1 ELSE 10 * Pow10(n - 1)

NaN == <<0, 0>>
PosInf == <<1, 0>>
NegInf == <<-1, 0>>

\* The float n/d, d # 0, in reduced form with a positive denominator.
Frac(n, d) ==
    LET s == IF d < 0 THEN -1 ELSE 1
        g == GCD(Abs(n), Abs(d))
    IN  <<(s * n) \div g, (s * d) \div g>>

IsNaN(v) == v = NaN
IsFinite(v) == v[2] # 0
IsZero(v) == v[1] = 0 /\ v[2] # 0

\* a < b for floats other than NaN.
Less(a, b) ==
    IF IsFinite(a) /\ IsFinite(b) THEN a[1] * b[2] < b[1] * a[2]
    ELSE a # b /\ (a = NegInf \/ b = PosInf)

\* IEEE division a / b as numpy computes it (no exception on a zero divisor).
Div(a, b) ==
    CASE IsNaN(a) \/ IsNaN(b) -> NaN
      [] IsFinite(a) /\ IsFinite(b) /\ ~IsZero(b) -> Frac(a[1] * b[2], a[2] * b[1])
      [] IsFinite(a) /\ IsZero(b) ->
            IF a[1] > 0 THEN PosInf ELSE IF a[1] < 0 THEN NegInf ELSE NaN
      [] IsFinite(a) /\ ~IsFinite(b) -> Frac(0, 1)
      [] ~IsFinite(a) /\ ~IsFinite(b) -> NaN
      [] OTHER -> IF b[1] < 0 THEN <<-a[1], 0>> ELSE a

\* The literals int() accepts: an optional sign and decimal digits.
IsIntLit(s) == IsDigits(Unsigned(s))
int(s) == Sign(s) * ParseDigits(Unsigned(s))

\* The literals float() accepts: an optional sign, decimal digits and at most
\* one decimal point.
IsFloatLit(s) ==
    LET u == Unsigned(s)
        dots == {p \in DOMAIN u : u[p] = "."}
    IN  /\ Cardinality(dots) <= 1
        /\ \A p \in DOMAIN u : u[p] \in Digits \cup {"."}
        /\ \E p \in DOMAIN u : u[p] \in Digits

float(s) ==
    LET u == Unsigned(s)
        IsDigit(c) == c \in Digits
        dots == {p \in DOMAIN u : u[p] = "."}
        decimals == IF dots = {} THEN 0 ELSE Len(u) - (CHOOSE p \in dots : TRUE)
    IN  Frac(Sign(s) * ParseDigits(SelectSeq(u, IsDigit)), Pow10(decimals))

\* ------------------------------------------------------------ data frames
\* A pandas.DataFrame with the columns X and Y: the row labels (index) and
\* the two columns, all of one length.
DataFrame(index, X, Y) == [index |-> index, X |-> X, Y |-> Y]

EmptyFrame == DataFrame(<<>>, <<>>, <<>>)

RangeIndex(n) == [p \in 1..n |-> p - 1]

\* pd.read_csv(filename, names=["X", "Y"]) of a file whose lines are
\* `content`, each line already split at the comma into two fields (an empty
\* field is <<>>, pandas' missing value).  No line is a header.
read_csv(content) ==
    DataFrame(RangeIndex(Len(content)),
              [p \in 1..Len(content) |-> content[p][1]],
              [p \in 1..Len(content) |-> content[p][2]])

\* xydata.index[xydata["X"] == text]: the labels of the rows whose X is text.
IndexWhere(df, text) ==
    {df.index[p] : p \in {q \in DOMAIN df.X : df.X[q] = text}}

\* A slice that includes its end, as the label-based df.loc[lo:hi, :] does.
loc(df, lo, hi) ==
    LET a == SliceIndex(lo, Len(df.X))
        b == SliceIndex(hi + 1, Len(df.X))
    IN  DataFrame(SubSeq(df.index, a + 1, b), SubSeq(df.X, a + 1, b),
                  SubSeq(df.Y, a + 1, b))

\* df.iloc[lo:hi, :], a positional slice with Python's clamping.
iloc(df, lo, hi) ==
    LET a == SliceIndex(lo, Len(df.X))
        b == SliceIndex(hi, Len(df.X))
    IN  DataFrame(SubSeq(df.index, a + 1, b), SubSeq(df.X, a + 1, b),
                  SubSeq(df.Y, a + 1, b))

\* df.reset_index(inplace=True, drop=True)
reset_index(df) == [df EXCEPT !.index = RangeIndex(Len(df.X))]

\* df.astype("float64"): a missing value becomes NaN, a numeric literal its
\* value; any other text raises ValueError.
Convertible(cell) == cell = <<>> \/ IsFloatLit(cell)
AsFloat(cell) == IF cell = <<>> THEN NaN ELSE float(cell)

astype_float64(df) ==
    DataFrame(df.index,
              [p \in DOMAIN df.X |-> AsFloat(df.X[p])],
              [p \in DOMAIN df.Y |-> AsFloat(df.Y[p])])

ItemError == "ValueError: can only convert an array of size 1 to a Python scalar"
FloatError == "ValueError: could not convert string to float"

Raise(err) == [ok |-> FALSE, err |-> err, df |-> EmptyFrame]
Return(df) == [ok |-> TRUE, err |-> "none", df |-> df]

\* Index.item() with the first of several labels taken instead of an error.
item_first(labels) ==
    IF labels # {}
    THEN [ok |-> TRUE, value |-> CHOOSE v \in labels : \A w \in labels : v <= w]
    ELSE [ok |-> FALSE, value |-> 0]

\* Index.item(): the only element; ValueError unless there is exactly one.
item(labels) ==
    IF Cardinality(labels) = 1
    THEN [ok |-> TRUE, value |-> CHOOSE v \in labels : TRUE]
    ELSE [ok |-> FALSE, value |-> 0]

\* import_irdata_from_csv(filename), applied to the file's content.  The
\* result is Return(df) or Raise(err).
import_irdata_from_csv(content) ==
    LET xydata == read_csv(content)
        data_start == item(IndexWhere(xydata, XYDATA))
        data_end == item(IndexWhere(xydata, ExtendedInformation))
    IN  IF ~data_start.ok THEN Raise(ItemError)
        ELSE IF ~data_end.ok THEN Raise(ItemError)
        ELSE LET cut == reset_index(iloc(xydata, data_start.value + 1, data_end.value))
             IN  IF \A p \in DOMAIN cut.X :
                        Convertible(cut.X[p]) /\ Convertible(cut.Y[p])
                 THEN Return(astype_float64(cut))
                 ELSE Raise(FloatError)

\* Series.max(): the largest value that is not NaN; NaN when there is none.
Max(col) ==
    LET vals == {col[p] : p \in DOMAIN col} \ {NaN}
    IN  IF vals = {} THEN NaN
        ELSE CHOOSE v \in vals : \A w \in vals : ~Less(v, w)

\* normalize_y(df): df["Y"] = df["Y"] / df["Y"].max()
normalize_y(df) ==
    [df EXCEPT !.Y = [p \in DOMAIN df.Y |-> Div(df.Y[p], Max(df.Y))]]

\* DataFrame.to_csv(newfile, header=False, index=False): one line per row,
\* the X and the Y value, neither the index nor a header.
to_csv(df) == [p \in 1..Len(df.X) |-> <<df.X[p], df.Y[p]>>]

\* ------------------------------------------------------------ inputs
Script == <<"I", "R", "v", "i", "s", "u", "a", "l", "i", "z", "e", "r", ".", "p", "y">>

\* The file path arguments of the command lines: an accepted file, an accepted
\* file whose name begins with a character of ".csv", a file of another type
\* and an already normalized file.
SampleCsv == <<"a", ".", "c", "s", "v">>
SpecCsv == <<"s", "1", ".", "c", "s", "v">>
SampleTxt == <<"a", ".", "t", "x", "t">>
SampleNormalizedCsv == <<"a">> \o NormalizedCsv

FileArgs == {SampleCsv, SpecCsv, SampleTxt, SampleNormalizedCsv}
ReadableFiles == {f \in FileArgs : Contains(f, DotCsv) /\ ~Contains(f, NormalizedCsv)}

Seven == <<"7">>
Half == <<"0", ".", "5">>

\* A flag with its two values, and a flag cut short of its second value.
XGroups == {<<MinusX, Seven, Seven>>, <<MinusX, Seven>>}
YGroups == {<<MinusY, Half, Seven>>, <<MinusY, Half>>}

SeqsUpTo(S, n) == UNION {[1..m -> S] : m \in 0..n}

Insert(s, p, group) == SubSeq(s, 1, p) \o group \o SubSeq(s, p + 1, Len(s))

\* The list `files` with the group gx put in before file number px (0-based)
\* and gy before file number py; xFirst orders the two at the same place.
WithFlags(files, gx, px, gy, py, xFirst) ==
    IF px < py \/ (px = py /\ xFirst)
    THEN Insert(Insert(files, py, gy), px, gx)
    ELSE Insert(Insert(files, px, gx), py, gy)

\* sys.argv: the script, then up to MaxFiles file paths, with no flag, -x,
\* -y or both, each at any place among the file paths.
CommandLines ==
    {<<Script>> \o a : a \in
        UNION {
            {files}
            \cup {Insert(files, p, g) : p \in 0..Len(files), g \in XGroups \cup YGroups}
            \cup {WithFlags(files, gx, px, gy, py, xf) :
                    gx \in XGroups, px \in 0..Len(files),
                    gy \in YGroups, py \in 0..Len(files), xf \in BOOLEAN}
            : files \in SeqsUpTo(FileArgs, MaxFiles)}}

Blank == <<>>
Title == <<"T", "I", "T", "L", "E">>
Text == <<"s">>
Row(x, y) == <<x, y>>

\* The scenario of the specification: metadata, the start marker, three data
\* rows, the end marker.
WellFormedFile ==
    << Row(Title, Text), Row(XYDATA, Blank),
       Row(<<"1", "0", "0", "0">>, <<"0", ".", "2">>),
       Row(<<"9", "9", "9">>, <<"0", ".", "5">>),
       Row(<<"9", "9", "8">>, <<"0", ".", "1">>),
       Row(ExtendedInformation, Blank) >>

\* The same file without its end marker.
LacksMarkerFile == SubSeq(WellFormedFile, 1, Len(WellFormedFile) - 1)

\* The contents a readable file has under Spec.
SampleTables == {WellFormedFile, LacksMarkerFile}

\* The rows of a raw table under SpecFn: the two marker rows, a metadata row
\* and data rows.
RawRows ==
    {Row(XYDATA, Blank), Row(ExtendedInformation, Blank), Row(Title, Text)}
    \cup {Row(Seven, y) : y \in {<<"-", "2">>, <<"-", "1">>, <<"0">>, <<"2">>}}

RawTables == UNION {[1..n -> RawRows] : n \in 1..MaxRows}

\* ------------------------------------------------------------ state
VARIABLES
    arguments,       \* sys.argv, modified in place
    pc,              \* where the script is
    i,               \* the running loop's index
    x_start, x_end,  \* plot x limits
    y_start, y_end,  \* plot y limits, None = <<>>
    j, k,            \* False = <<>>, or <<index of the -x / -y flag>>
    disk,            \* the content of each readable input file
    importedData,    \* dict: file -> DataFrame
    normalizedData,  \* dict: file -> DataFrame
    plots,           \* the figures drawn, in order
    written,         \* the output files: name -> lines
    stdout,          \* what print() wrote, in order
    error            \* the uncaught exception or exit message, or "none"

vars == <<arguments, pc, i, x_start, x_end, y_start, y_end, j, k, disk,
          importedData, normalizedData, plots, written, stdout, error>>

None == <<>>
False == <<>>
DefaultXStart == 4000
DefaultXEnd == 500

EmptyDict == [n \in {} |-> EmptyFrame]

\* d[key] = value for a dict held as a function.
Put(d, key, value) ==
    [n \in DOMAIN d \cup {key} |-> IF n = key THEN value ELSE d[n]]

\* One print(): the text and the value formatted into it.
Message(text, arg) == [msg |-> text, arg |-> arg]

\* Python's truth value of j and k: False and 0 are false.
Truthy(v) == v # False /\ v[1] # 0

Init ==
    /\ arguments \in CommandLines
    /\ disk \in [ReadableFiles -> SampleTables]
    /\ pc = "start"
    /\ i = 0
    /\ x_start = DefaultXStart
    /\ x_end = DefaultXEnd
    /\ y_start = None
    /\ y_end = None
    /\ j = False
    /\ k = False
    /\ importedData = EmptyDict
    /\ normalizedData = EmptyDict
    /\ plots = <<>>
    /\ written = EmptyDict
    /\ stdout = <<>>
    /\ error = "none"

\* ------------------------------------------------------------ the script
NoArgumentError ==
    "ERROR: No argument given. Please give at least one csv file with IR data."

\* Lines 75-78: exit when the script is the only element of sys.argv.
CheckArguments ==
    /\ pc = "start"
    /\ IF Len(arguments) = 1
       THEN /\ pc' = "exit"
            /\ error' = NoArgumentError
            /\ UNCHANGED <<i, stdout>>
       ELSE /\ pc' = "scan"
            /\ i' = 0
            /\ stdout' = Append(stdout, Message("arguments", arguments))
            /\ UNCHANGED error
    /\ UNCHANGED <<arguments, x_start, x_end, y_start, y_end, j, k, disk,
                   importedData, normalizedData, plots, written>>

\* Lines 81-84 for element idx of args; st holds x_start, x_end, y_start,
\* y_end, j, k and err, the exception raised so far.
FlagX(args, idx, st) ==
    IF ~Contains(args[idx + 1], MinusX) THEN st
    ELSE IF idx + 1 >= Len(args) THEN [st EXCEPT !.err = "IndexError"]
    ELSE IF ~IsIntLit(args[idx + 2]) THEN [st EXCEPT !.err = "ValueError"]
    ELSE LET st1 == [st EXCEPT !.x_start = int(args[idx + 2])]
         IN  IF idx + 2 >= Len(args) THEN [st1 EXCEPT !.err = "IndexError"]
             ELSE IF ~IsIntLit(args[idx + 3]) THEN [st1 EXCEPT !.err = "ValueError"]
             ELSE [st1 EXCEPT !.x_end = int(args[idx + 3]), !.j = <<idx>>]

\* Lines 85-88.
FlagY(args, idx, st) ==
    IF ~Contains(args[idx + 1], MinusY) THEN st
    ELSE IF idx + 1 >= Len(args) THEN [st EXCEPT !.err = "IndexError"]
    ELSE IF ~IsFloatLit(args[idx + 2]) THEN [st EXCEPT !.err = "ValueError"]
    ELSE LET st1 == [st EXCEPT !.y_start = float(args[idx + 2])]
         IN  IF idx + 2 >= Len(args) THEN [st1 EXCEPT !.err = "IndexError"]
             ELSE IF ~IsFloatLit(args[idx + 3]) THEN [st1 EXCEPT !.err = "ValueError"]
             ELSE [st1 EXCEPT !.y_end = float(args[idx + 3]), !.k = <<idx>>]

\* Lines 80-88: one iteration of the loop that looks for -x and -y.
ScanFlag ==
    /\ pc = "scan"
    /\ i < Len(arguments)
    /\ LET st0 == [x_start |-> x_start, x_end |-> x_end, y_start |-> y_start,
                   y_end |-> y_end, j |-> j, k |-> k, err |-> "none"]
           st1 == FlagX(arguments, i, st0)
           st2 == IF st1.err = "none" THEN FlagY(arguments, i, st1) ELSE st1
       IN  /\ x_start' = st2.x_start
           /\ x_end' = st2.x_end
           /\ y_start' = st2.y_start
           /\ y_end' = st2.y_end
           /\ j' = st2.j
           /\ k' = st2.k
           /\ error' = st2.err
           /\ pc' = IF st2.err = "none" THEN "scan" ELSE "crashed"
           /\ i' = IF st2.err = "none" THEN i + 1 ELSE i
    /\ UNCHANGED <<arguments, disk, importedData, normalizedData, plots,
                   written, stdout>>

\* Lines 90-95: delete the flags and their values from the argument list.
DeleteFlags(args, jv, kv) ==
    IF Truthy(jv)
    THEN LET a1 == DelSlice(args, jv[1], jv[1] + 3)
         IN  IF Truthy(kv) THEN DelSlice(a1, kv[1] - 3, kv[1]) ELSE a1
    ELSE IF Truthy(kv) THEN DelSlice(args, kv[1], kv[1] + 3)
    ELSE args

\* Lines 90-103, after the scan: remove the flags, print the limits, start
\* the batch loop at element 1.
RemoveFlags ==
    /\ pc = "scan"
    /\ i >= Len(arguments)
    /\ arguments' = DeleteFlags(arguments, j, k)
    /\ stdout' = stdout \o <<Message("x limit", <<x_start, x_end>>),
                             Message("y limit", <<y_start, y_end>>)>>
    /\ pc' = "loop"
    /\ i' = 1
    /\ UNCHANGED <<x_start, x_end, y_start, y_end, j, k, disk, importedData,
                   normalizedData, plots, written, error>>

\* Lines 107 and 109: which arguments the batch loop processes.
InvalidType(file) == ~Contains(file, DotCsv)
Processed(file) == Contains(file, DotCsv) /\ Contains(file, NormalizedCsv)

\* Lines 107-108: an argument without ".csv" is skipped with a warning.
SkipInvalidType ==
    /\ pc = "loop"
    /\ i < Len(arguments)
    /\ InvalidType(arguments[i + 1])
    /\ stdout' = Append(stdout, Message("WARNING: invalid file type", arguments[i + 1]))
    /\ i' = i + 1
    /\ UNCHANGED <<arguments, pc, x_start, x_end, y_start, y_end, j, k, disk,
                   importedData, normalizedData, plots, written, error>>

\* Lines 109-110: an already normalized file is skipped.
SkipProcessed ==
    /\ pc = "loop"
    /\ i < Len(arguments)
    /\ Processed(arguments[i + 1])
    /\ stdout' = Append(stdout, Message("Skipping previously processed file", arguments[i + 1]))
    /\ i' = i + 1
    /\ UNCHANGED <<arguments, pc, x_start, x_end, y_start, y_end, j, k, disk,
                   importedData, normalizedData, plots, written, error>>

\* Lines 112-113: import the file; an exception of the import is not caught
\* and ends the script.
Import ==
    /\ pc = "loop"
    /\ i < Len(arguments)
    /\ ~InvalidType(arguments[i + 1])
    /\ ~Processed(arguments[i + 1])
    /\ LET file == arguments[i + 1]
           r == IF file \in DOMAIN disk
                THEN import_irdata_from_csv(disk[file])
                ELSE Raise("FileNotFoundError")
       IN  /\ stdout' = Append(stdout, Message("Importing", file))
           /\ IF r.ok
              THEN /\ importedData' = Put(importedData, file, r.df)
                   /\ pc' = "imported"
                   /\ UNCHANGED error
              ELSE /\ error' = r.err
                   /\ pc' = "crashed"
                   /\ UNCHANGED importedData
    /\ UNCHANGED <<arguments, i, x_start, x_end, y_start, y_end, j, k, disk,
                   normalizedData, plots, written>>

\* Lines 115-116: normalize_y changes the frame in place and returns it, so
\* importedData[file] and normalizedData[file] are the same frame.
Normalize ==
    /\ pc = "imported"
    /\ LET file == arguments[i + 1]
           df == normalize_y(importedData[file])
       IN  /\ importedData' = Put(importedData, file, df)
           /\ normalizedData' = Put(normalizedData, file, df)
           /\ stdout' = Append(stdout, Message("Normalized data", file))
    /\ pc' = "normalized"
    /\ UNCHANGED <<arguments, i, x_start, x_end, y_start, y_end, j, k, disk,
                   plots, written, error>>

\* Lines 118-119 (plot_spectrum, lines 47-62).
Plot ==
    /\ pc = "normalized"
    /\ LET file == arguments[i + 1]
       IN  /\ plots' = Append(plots, [title |-> file,
                                      X |-> normalizedData[file].X,
                                      Y |-> normalizedData[file].Y,
                                      xlim |-> <<x_start, x_end>>,
                                      ylim |-> <<y_start, y_end>>])
           /\ stdout' = Append(stdout, Message("Plotted spectra", file))
    /\ pc' = "plotted"
    /\ UNCHANGED <<arguments, i, x_start, x_end, y_start, y_end, j, k, disk,
                   importedData, normalizedData, written, error>>

\* Line 121: the name of the output file.
NewFile(file) == Strip(file, DotCsv) \o NormalizedCsv

\* Lines 121-123: save the normalized data, go on to the next argument.
Save ==
    /\ pc = "plotted"
    /\ LET file == arguments[i + 1]
           newfile == NewFile(file)
       IN  /\ written' = Put(written, newfile, to_csv(normalizedData[file]))
           /\ stdout' = Append(stdout, Message("Saved normalized data", newfile))
    /\ pc' = "loop"
    /\ i' = i + 1
    /\ UNCHANGED <<arguments, x_start, x_end, y_start, y_end, j, k, disk,
                   importedData, normalizedData, plots, error>>

\* Lines 124-126: the loop is over.
Finish ==
    /\ pc = "loop"
    /\ i >= Len(arguments)
    /\ stdout' = Append(stdout, Message("All spectra processed", <<>>))
    /\ pc' = "done"
    /\ UNCHANGED <<arguments, i, x_start, x_end, y_start, y_end, j, k, disk,
                   importedData, normalizedData, plots, written, error>>

Next ==
    \/ CheckArguments
    \/ ScanFlag
    \/ RemoveFlags
    \/ SkipInvalidType
    \/ SkipProcessed
    \/ Import
    \/ Normalize
    \/ Plot
    \/ Save
    \/ Finish

Spec == Init /\ [][Next]_vars

\* One file named on the command line, from the start of the batch loop on,
\* its content any raw table of up to MaxRows rows.
InitFn ==
    /\ arguments = <<Script, SampleCsv>>
    /\ disk \in [{SampleCsv} -> RawTables]
    /\ pc = "loop"
    /\ i = 1
    /\ x_start = DefaultXStart
    /\ x_end = DefaultXEnd
    /\ y_start = None
    /\ y_end = None
    /\ j = False
    /\ k = False
    /\ importedData = EmptyDict
    /\ normalizedData = EmptyDict
    /\ plots = <<>>
    /\ written = EmptyDict
    /\ stdout = <<Message("arguments", <<Script, SampleCsv>>),
                  Message("x limit", <<DefaultXStart, DefaultXEnd>>),
                  Message("y limit", <<None, None>>)>>
    /\ error = "none"

NextFn ==
    \/ Import
    \/ Normalize
    \/ Plot
    \/ Save
    \/ Finish

SpecFn == InitFn /\ [][NextFn]_vars

\* ------------------------------------------------------------ properties
\* The command line as given: print(arguments) on line 78 wrote it before
\* the list was modified; nothing was printed when the script exited there.
OriginalArgv == IF stdout = <<>> THEN arguments ELSE stdout[1].arg

\* The arguments after the script form flags, each with its two values, and
\* file paths.
RECURSIVE WellFormedArgs(_)
WellFormedArgs(s) ==
    IF s = <<>> THEN TRUE
    ELSE IF Head(s) = MinusX
         THEN /\ Len(s) >= 3
              /\ IsIntLit(s[2]) /\ IsIntLit(s[3])
              /\ WellFormedArgs(SubSeq(s, 4, Len(s)))
    ELSE IF Head(s) = MinusY
         THEN /\ Len(s) >= 3
              /\ IsFloatLit(s[2]) /\ IsFloatLit(s[3])
              /\ WellFormedArgs(SubSeq(s, 4, Len(s)))
    ELSE Head(s) \in FileArgs /\ WellFormedArgs(Tail(s))

\* The file paths of well-formed arguments, in their order.
RECURSIVE FilePaths(_)
FilePaths(s) ==
    IF s = <<>> THEN <<>>
    ELSE IF Head(s) \in {MinusX, MinusY} THEN FilePaths(SubSeq(s, 4, Len(s)))
    ELSE <<Head(s)>> \o FilePaths(Tail(s))

Occurrences(s, tok) == Cardinality({p \in DOMAIN s : s[p] = tok})

\* Each flag at most once, each with its two values.
FlagsWellFormed ==
    /\ WellFormedArgs(Tail(OriginalArgv))
    /\ Occurrences(OriginalArgv, MinusX) <= 1
    /\ Occurrences(OriginalArgv, MinusY) <= 1

\* The script is in or past the batch loop.
InBatch == pc \in {"loop", "imported", "normalized", "plotted", "done"}
           \/ (pc = "crashed" /\ error \in {ItemError, FloatError, "FileNotFoundError"})

Accepted(file) == ~InvalidType(file) /\ ~Processed(file)

\* Rows (1-based) of a raw table whose X is the marker.
MarkerRows(raw, marker) == {p \in DOMAIN raw : raw[p][1] = marker}

\* One start marker at row s, one end marker at row e > s + 1 (1-based here),
\* numeric values in between.
WellFormedTable(raw) ==
    /\ Cardinality(MarkerRows(raw, XYDATA)) = 1
    /\ Cardinality(MarkerRows(raw, ExtendedInformation)) = 1
    /\ LET s == CHOOSE p \in MarkerRows(raw, XYDATA) : TRUE
           e == CHOOSE p \in MarkerRows(raw, ExtendedInformation) : TRUE
       IN  /\ e > s + 1
           /\ \A p \in (s + 1)..(e - 1) : IsFloatLit(raw[p][1]) /\ IsFloatLit(raw[p][2])

\* The file the batch loop is at.
CurrentFile == arguments[i + 1]

\* C1: for a raw table with one start marker at s, one end marker at
\* e > s + 1 and numeric values in between, the import does not fail and
\* returns e - s - 1 rows, the raw rows s+1 .. e-1 in their order, with the
\* index 0, 1, ..., e - s - 2.
C1_ExtractsRowsBetweenMarkers ==
    \A f \in DOMAIN disk :
        WellFormedTable(disk[f]) =>
            /\ ~(pc = "crashed" /\ CurrentFile = f)
            /\ (pc = "imported" /\ CurrentFile = f) =>
                  LET raw == disk[f]
                      s == CHOOSE p \in MarkerRows(raw, XYDATA) : TRUE
                      e == CHOOSE p \in MarkerRows(raw, ExtendedInformation) : TRUE
                      n == e - s - 1
                      df == importedData[f]
                  IN  /\ Len(df.X) = n /\ Len(df.Y) = n
                      /\ df.index = [r \in 1..n |-> r - 1]
                      /\ \A r \in 1..n :
                            /\ df.X[r] = float(raw[s + r][1])
                            /\ df.Y[r] = float(raw[s + r][2])

\* C1 witness: a table with metadata-free start, two different data rows.
C1_Witness ==
    /\ pc = "imported"
    /\ WellFormedTable(disk[CurrentFile])
    /\ Len(importedData[CurrentFile].Y) = 2
    /\ importedData[CurrentFile].Y[1] # importedData[CurrentFile].Y[2]

\* The import of the current file has run.
ImportRan == pc # "loop" \/ i > 1

\* C6: with zero or several start markers, or zero or several end markers,
\* the import fails (Index.item() raises) and no table is returned or stored.
C6_MarkerCountFails ==
    \A f \in DOMAIN disk :
        (\/ Cardinality(MarkerRows(disk[f], XYDATA)) # 1
         \/ Cardinality(MarkerRows(disk[f], ExtendedInformation)) # 1) =>
            /\ f \notin DOMAIN importedData
            /\ (ImportRan /\ i < Len(arguments) /\ CurrentFile = f) =>
                  (pc = "crashed" /\ error = ItemError)

\* C6 witness: the import has failed on a table with two start markers and
\* one end marker.
C6_Witness ==
    /\ pc = "crashed"
    /\ Cardinality(MarkerRows(disk[CurrentFile], XYDATA)) = 2
    /\ Cardinality(MarkerRows(disk[CurrentFile], ExtendedInformation)) = 1

One == Frac(1, 1)

\* C7: whenever the import returns a table, the table has at least one row.
C7_ImportedTableNonEmpty ==
    pc = "imported" => Len(importedData[CurrentFile].X) >= 1

\* C2: for a numeric table with at least one row and max(Y) # 0, also when
\* the maximum is negative, normalize_y returns a table whose maximum Y is 1,
\* with the same rows in the same order and every X unchanged.
C2_NormalizedMaxIsOne ==
    pc = "normalized" =>
        LET t == import_irdata_from_csv(disk[CurrentFile]).df
            m == Max(t.Y)
            out == normalizedData[CurrentFile]
        IN  (Len(t.Y) >= 1 /\ ~IsNaN(m) /\ ~IsZero(m)) =>
                /\ Max(out.Y) = One
                /\ Len(out.Y) = Len(t.Y)
                /\ out.X = t.X
                /\ out.index = t.index

\* C9: for a numeric table whose maximum Y is 0, normalize_y returns no
\* table: none is stored for the file.
C9_ZeroMaxReturnsNoTable ==
    \A f \in DOMAIN disk :
        LET t == import_irdata_from_csv(disk[f])
        IN  (t.ok /\ IsZero(Max(t.df.Y))) => f \notin DOMAIN normalizedData

\* The name the output of name.csv is to have: name_normalized.csv.
ExpectedName(file) == SubSeq(file, 1, Len(file) - Len(DotCsv)) \o NormalizedCsv

EndsWith(s, suffix) ==
    Len(s) >= Len(suffix) /\ SubSeq(s, Len(s) - Len(suffix) + 1, Len(s)) = suffix

\* C3: when a file name.csv has been saved, the file written is named
\* name_normalized.csv and holds the normalized rows in their order.
C3_OutputFileName ==
    \A p \in DOMAIN stdout :
        (stdout[p].msg = "Saved normalized data" /\ EndsWith(stdout[p - 3].arg, DotCsv)) =>
            LET file == stdout[p - 3].arg
            IN  /\ stdout[p].arg = ExpectedName(file)
                /\ ExpectedName(file) \in DOMAIN written
                /\ written[ExpectedName(file)] = to_csv(normalizedData[file])

\* The arguments the batch loop has attempted, in the order it did: each
\* attempt begins with one of these three messages.
AttemptMessages ==
    {"WARNING: invalid file type", "Skipping previously processed file", "Importing"}

Attempted ==
    LET IsAttempt(m) == m.msg \in AttemptMessages
        a == SelectSeq(stdout, IsAttempt)
    IN  [p \in DOMAIN a |-> a[p].arg]

Skipped ==
    {stdout[p].arg : p \in {q \in DOMAIN stdout :
        stdout[q].msg \in {"WARNING: invalid file type", "Skipping previously processed file"}}}

Terminated == pc \in {"done", "crashed", "exit"}

\* C4: an argument without ".csv" or with "_normalized.csv" is never
\* imported, normalized, plotted or written, and once the script has ended
\* after such a skip, every argument of the list has been attempted, in the
\* order of the list.
C4_SkipAndContinue ==
    InBatch =>
        /\ \A m \in 1..(Len(arguments) - 1) :
              LET file == arguments[m + 1]
              IN  ~Accepted(file) =>
                    /\ file \notin DOMAIN importedData
                    /\ file \notin DOMAIN normalizedData
                    /\ \A p \in DOMAIN plots : plots[p].title # file
                    /\ NewFile(file) \notin DOMAIN written
        /\ (Terminated /\ Skipped # {}) => Attempted = Tail(arguments)

\* C5: a command line without a file path, with or without flags and their
\* values, ends in an error: the script never runs to its normal end, and
\* nothing is attempted, imported or written.
C5_NoFileArgumentIsAnError ==
    (FlagsWellFormed /\ FilePaths(Tail(OriginalArgv)) = <<>>) =>
        /\ Terminated => (pc # "done" /\ error # "none")
        /\ Attempted = <<>>
        /\ written = EmptyDict
        /\ importedData = EmptyDict

\* C8: when the script has ended on a file that lacks a marker, every
\* accepted well-formed file of the batch, before and after it, has been
\* imported, normalized and saved, and the failed one has no output.
C8_OtherFilesStillComplete ==
    (pc = "crashed" /\ error = ItemError) =>
        \A m \in 1..(Len(arguments) - 1) :
            LET file == arguments[m + 1]
            IN  Accepted(file) =>
                  IF import_irdata_from_csv(disk[file]).ok
                  THEN /\ file \in DOMAIN normalizedData
                       /\ NewFile(file) \in DOMAIN written
                  ELSE file \notin DOMAIN normalizedData

\* C10: with each flag at most once and followed by its two values, the list
\* the batch loop iterates over is the file paths of the command line, in
\* their order.
C10_LoopSeesExactlyTheFilePaths ==
    (InBatch /\ FlagsWellFormed) => Tail(arguments) = FilePaths(Tail(OriginalArgv))

====
